---------------------------- MODULE Spec2Model ----------------------------
(***************************************************************************)
(* A model of udsv_serde: the UDSV record serializer (ser.rs) and          *)
(* deserializer (de.rs).  Text is a sequence of characters; a character is *)
(* a one-symbol string.  Positions handed around by the Rust code are BYTE *)
(* offsets (0-based), so every character carries its UTF-8 length.         *)
(***************************************************************************)
EXTENDS Integers, Sequences, FiniteSets, TLC

(***************************************************************************)
(* Bounds of the model.                                                    *)
(***************************************************************************)
\* Longest input text (in symbols) handed to record_from_str.
MaxLen == 4
\* Longest string inside a value handed to record_to_string.
MaxStr == 3

(***************************************************************************)
(* Characters.                                                             *)
(***************************************************************************)
Colon == ":"
Comma == ","
Equals == "="
Backslash == "\\"
Newline == "\n"
CarriageReturn == "\r"
Tab == "\t"
\* A character outside ASCII: two bytes in UTF-8 (U+00E9).
EAcute == "e'"

\* char::len_utf8
len_utf8(c) ==
    IF c = EAcute THEN 2 ELSE 1

Digits == <<"0", "1", "2", "3", "4", "5", "6", "7", "8", "9">>

IsDigit(c) ==
    \E i \in 1..10 : Digits[i] = c

\* ch as u8 - b'0'
DigitVal(c) ==
    (CHOOSE i \in 1..10 : Digits[i] = c) - 1

(***************************************************************************)
(* str helpers (std): byte length, byte offsets, slicing, replace.         *)
(***************************************************************************)
RECURSIVE ByteLen(_)
\* str::len: the length in bytes
ByteLen(s) ==
    IF s = <<>> THEN 0 ELSE len_utf8(Head(s)) + ByteLen(Tail(s))

\* The byte offset at which the p-th character (1-based) of s starts.
ByteOff(s, p) ==
    ByteLen(SubSeq(s, 1, p - 1))

\* str::is_char_boundary
IsCharBoundary(s, b) ==
    \E p \in 1..(Len(s) + 1) : ByteOff(s, p) = b

\* The number of characters that lie before byte offset b (a boundary).
CharsBefore(s, b) ==
    (CHOOSE p \in 1..(Len(s) + 1) : ByteOff(s, p) = b) - 1

\* &s[..b]
SliceTo(s, b) ==
    SubSeq(s, 1, CharsBefore(s, b))

\* &s[b..]
SliceFrom(s, b) ==
    SubSeq(s, CharsBefore(s, b) + 1, Len(s))

\* str::starts_with
StartsWith(s, pat) ==
    /\ Len(s) >= Len(pat)
    /\ SubSeq(s, 1, Len(pat)) = pat

RECURSIVE Replace(_, _, _)
\* str::replace: every non-overlapping match of pat, left to right, becomes to.
Replace(s, pat, to) ==
    IF Len(s) < Len(pat) THEN s
    ELSE IF StartsWith(s, pat)
         THEN to \o Replace(SubSeq(s, Len(pat) + 1, Len(s)), pat, to)
         ELSE <<Head(s)>> \o Replace(Tail(s), pat, to)

\* Option<usize>
NoIdx == [is_some |-> FALSE, idx |-> 0]

SomeIdx(i) == [is_some |-> TRUE, idx |-> i]

\* The match of (Option<usize>, Option<usize>) that keeps the smaller index.
MinIdx(a, b) ==
    IF a.is_some /\ b.is_some
    THEN SomeIdx(IF a.idx <= b.idx THEN a.idx ELSE b.idx)
    ELSE IF a.is_some THEN a
    ELSE IF b.is_some THEN b
    ELSE NoIdx

(***************************************************************************)
(* Deserializer: the parsing functions of de.rs.  d is the Deserializer,   *)
(* a record [input, in_seq, in_map].                                       *)
(***************************************************************************)
\* Deserializer::from_str
from_str(s) ==
    [input |-> s, in_seq |-> FALSE, in_map |-> FALSE]

\* shift_input_forward panics unless len is a character boundary of the input.
shift_panics(input, len) ==
    ~IsCharBoundary(input, len)

shift_input_forward(input, len) ==
    SliceFrom(input, len)

\* The filter of get_next_nonescaped_char: the match at byte offset b is kept
\* when b > 0 and the character that chars().nth(b - 1) finds is not a
\* backslash (nth counts characters, b counts bytes; no such character: false).
KeepMatch(input, b) ==
    /\ b > 0
    /\ b <= Len(input)
    /\ input[b] # Backslash

get_next_nonescaped_char(input, ch) ==
    LET kept == {p \in 1..Len(input) :
                    input[p] = ch /\ KeepMatch(input, ByteOff(input, p))}
    IN  IF kept = {} THEN NoIdx
        ELSE SomeIdx(ByteOff(input, CHOOSE p \in kept : \A q \in kept : p <= q))

get_next_delimiter_idx(d) ==
    LET idx == get_next_nonescaped_char(d.input, Colon)
        idx2 == IF d.in_seq \/ d.in_map
                THEN MinIdx(idx, get_next_nonescaped_char(d.input, Comma))
                ELSE idx
    IN  IF d.in_map
        THEN MinIdx(idx2, get_next_nonescaped_char(d.input, Equals))
        ELSE idx2

\* The unescaping passes of parse_string, in the order of the code.
Unescape(s) ==
    LET s1 == Replace(s, <<Backslash, Colon>>, <<Colon>>)
        s2 == Replace(s1, <<Backslash, Comma>>, <<Comma>>)
        s3 == Replace(s2, <<Backslash, Equals>>, <<Equals>>)
        s4 == Replace(s3, <<Backslash, Backslash>>, <<Backslash>>)
        s5 == Replace(s4, <<Backslash, Newline>>, <<>>)
        s6 == Replace(s5, <<Backslash, "n">>, <<Newline>>)
        s7 == Replace(s6, <<Backslash, "r">>, <<CarriageReturn>>)
    IN  Replace(s7, <<Backslash, "t">>, <<Tab>>)

\* The length (in bytes) of the token parse_string takes.
TokenLen(d) ==
    LET i == get_next_delimiter_idx(d)
    IN  IF i.is_some THEN i.idx ELSE ByteLen(d.input)

\* parse_string that takes the delimiter with the token.
parse_string_past_delimiter(d) ==
    [s |-> Unescape(SliceTo(d.input, TokenLen(d))),
     input |-> IF get_next_delimiter_idx(d).is_some
               THEN shift_input_forward(d.input, TokenLen(d) + 1)
               ELSE shift_input_forward(d.input, TokenLen(d))]

\* parse_string: the unescaped token and the input left after it.
parse_string(d) ==
    [s |-> Unescape(SliceTo(d.input, TokenLen(d))),
     input |-> shift_input_forward(d.input, TokenLen(d))]

(***************************************************************************)
(* Serializer: escape_str of ser.rs.  z is the Serializer, a record        *)
(* [output, in_seq, in_map].                                               *)
(***************************************************************************)
\* escape_str with the backslash replaced last instead of first: the
\* backslashes the other replacements insert are doubled.
escape_str_backslash_last(z, v) ==
    LET v2 == Replace(v, <<Colon>>, <<Backslash, Colon>>)
        v3 == Replace(v2, <<Newline>>, <<Backslash, "n">>)
        v4 == IF z.in_seq \/ z.in_map
              THEN Replace(v3, <<Comma>>, <<Backslash, Comma>>)
              ELSE v3
        v5 == IF z.in_map
              THEN Replace(v4, <<Equals>>, <<Backslash, Equals>>)
              ELSE v4
    IN  Replace(v5, <<Backslash>>, <<Backslash, Backslash>>)

escape_str(z, v) ==
    LET v1 == Replace(v, <<Backslash>>, <<Backslash, Backslash>>)
        v2 == Replace(v1, <<Colon>>, <<Backslash, Colon>>)
        v3 == Replace(v2, <<Newline>>, <<Backslash, "n">>)
        v4 == IF z.in_seq \/ z.in_map
              THEN Replace(v3, <<Comma>>, <<Backslash, Comma>>)
              ELSE v3
    IN  IF z.in_map
        THEN Replace(v4, <<Equals>>, <<Backslash, Equals>>)
        ELSE v4

(***************************************************************************)
(* Schemas: the Rust type a caller asks record_from_str for, and values.   *)
(* A field name always holds the same sort of thing, so any two values can *)
(* be compared.                                                            *)
(***************************************************************************)
T_str == [k |-> "str"]

T_char == [k |-> "char"]

T_bool == [k |-> "bool"]

T_bytes == [k |-> "bytes"]

T_unit == [k |-> "unit"]

T_uint(w) == [k |-> "uint", w |-> w]

T_sint(w) == [k |-> "sint", w |-> w]

T_opt(t) == [k |-> "opt", of |-> t]

T_seq(t) == [k |-> "seq", of |-> t]

T_tuple(ts) == [k |-> "tuple", tys |-> ts]

T_struct(ts) == [k |-> "struct", tys |-> ts]

T_map(kt, vt) == [k |-> "map", kty |-> kt, vty |-> vt]

T_enum(vs) == [k |-> "enum", variants |-> vs]

Variant(name, kind, t) == [name |-> name, kind |-> kind, ty |-> t]

StrV(s) == [k |-> "str", s |-> s]

CharV(c) == [k |-> "char", c |-> c]

BoolV(b) == [k |-> "bool", b |-> b]

UIntV(n) == [k |-> "uint", n |-> n]

SIntV(n) == [k |-> "sint", n |-> n]

BytesV == [k |-> "bytes"]

UnitV == [k |-> "unit"]

NoneV == [k |-> "none"]

SomeV(v) == [k |-> "some", v |-> v]

SeqV(items) == [k |-> "seq", items |-> items]

TupleV(items) == [k |-> "tuple", items |-> items]

StructV(items) == [k |-> "struct", items |-> items]

MapV(m) == [k |-> "map", m |-> m]

EnumV(name, kind, p) == [k |-> "enum", variant |-> name, kind |-> kind, payload |-> p]

\* The identifiers the code and its tests spell out, as text.
W_true == <<"t", "r", "u", "e">>

W_false == <<"f", "a", "l", "s", "e">>

W_Unit == <<"U", "n", "i", "t">>

W_Newtype == <<"N", "e", "w", "t", "y", "p", "e">>

W_Tuple == <<"T", "u", "p", "l", "e">>

W_Struct == <<"S", "t", "r", "u", "c", "t">>

W_Opt == <<"O", "p", "t">>

\* enum E of test_enum (de.rs) and test_enum (ser.rs)
E ==
    T_enum(<<Variant(W_Unit, "unit", T_unit),
             Variant(W_Newtype, "newtype", T_uint(32)),
             Variant(W_Tuple, "tuple", T_tuple(<<T_uint(32), T_uint(32)>>)),
             Variant(W_Struct, "struct", T_struct(<<T_uint(32)>>)),
             Variant(W_Opt, "newtype", T_opt(T_uint(32)))>>)

\* struct Test { int: u32, seq: Vec<String> } of test_struct (de.rs)
Test == T_struct(<<T_uint(32), T_seq(T_str)>>)

\* A struct of two strings, and one whose first field is the enum E.
Pair == T_struct(<<T_str, T_str>>)

Tagged == T_struct(<<E, T_uint(32)>>)

(***************************************************************************)
(* u8/u16/u32 arithmetic of parse_unsigned.  The largest value of a w-bit  *)
(* type is 10 * QMax(w) + 5.                                               *)
(***************************************************************************)
QMax(w) ==
    CASE w = 8 -> 25
      [] w = 16 -> 6553
      [] w = 32 -> 429496729

\* int *= 10; int += digit overflows the w-bit type.
Overflows(w, int, digit) ==
    \/ int > QMax(w)
    \/ int = QMax(w) /\ digit > 5

\* The wrapped result of int *= 10; int += digit without overflow checks.
Wrapped(w, int, digit) ==
    (int * 10 + digit) % (2 ^ w)

RECURSIVE parse_unsigned_loop(_, _, _, _)
\* The loop of parse_unsigned: int so far, the input left, and whether the
\* build checks arithmetic overflow (it panics) or wraps.
parse_unsigned_loop(w, int, input, checks) ==
    IF input # <<>> /\ IsDigit(Head(input))
    THEN IF Overflows(w, int, DigitVal(Head(input)))
         THEN IF checks
              THEN [st |-> "panic", err |-> "", n |-> int,
                    input |-> shift_input_forward(input, 1), overflowed |-> TRUE]
              ELSE [parse_unsigned_loop(w, Wrapped(w, int, DigitVal(Head(input))),
                                        shift_input_forward(input, 1), checks)
                    EXCEPT !.overflowed = TRUE]
         ELSE parse_unsigned_loop(w, int * 10 + DigitVal(Head(input)),
                                  shift_input_forward(input, 1), checks)
    ELSE [st |-> "ok", err |-> "", n |-> int, input |-> input, overflowed |-> FALSE]

parse_unsigned(w, input, checks) ==
    IF input = <<>>
    THEN [st |-> "err", err |-> "Eof", n |-> 0, input |-> input, overflowed |-> FALSE]
    ELSE IF IsDigit(Head(input))
    THEN parse_unsigned_loop(w, DigitVal(Head(input)),
                             shift_input_forward(input, len_utf8(Head(input))), checks)
    ELSE [st |-> "err", err |-> "ExpectedInteger", n |-> 0,
          input |-> shift_input_forward(input, len_utf8(Head(input))),
          overflowed |-> FALSE]

(***************************************************************************)
(* State.                                                                  *)
(*   de        the Deserializer [input, in_seq, in_map]                    *)
(*   stack     what is still to run of the decode call, innermost first:   *)
(*             the pending T::deserialize calls and the open visitors      *)
(*   vals      the values decoded so far that no visitor has assembled     *)
(*   result    what record_from_str returned: status running, ok (the      *)
(*             value is Head(vals)), err (with the Error variant) or panic *)
(*   ser, ser_stack, ser_result   the same for Serializer/record_to_string *)
(*   overflow_checks   whether the build panics on integer overflow, fixed *)
(*             the first time an overflow happens                          *)
(*   value, schema, text   what the caller passed                          *)
(*   pc        encode, decode or done                                      *)
(***************************************************************************)
VARIABLES de, stack, vals, result, ser, ser_stack, ser_result,
          overflow_checks, value, schema, text, pc

vars == <<de, stack, vals, result, ser, ser_stack, ser_result,
          overflow_checks, value, schema, text, pc>>

serVars == <<ser, ser_stack, ser_result>>

given == <<value, schema, text>>

Running == [status |-> "running", err |-> ""]

Reverse(s) ==
    [i \in 1..Len(s) |-> s[Len(s) + 1 - i]]

RECURSIVE MapFromEntries(_)
\* HashMap::insert of each (key, value) of <<k1, v1, k2, v2, ...>> in turn.
MapFromEntries(es) ==
    IF es = <<>> THEN <<>>
    ELSE LET n == Len(es)
             m == MapFromEntries(SubSeq(es, 1, n - 2))
         IN  [x \in (DOMAIN m) \cup {es[n - 1]} |->
                 IF x = es[n - 1] THEN es[n] ELSE m[x]]

RECURSIVE Ret(_, _, _)
\* A value v comes back to the visitor on top of stk (vs: the values below):
\* Option's visit_some wraps it, the enum's visitor wraps a payload, a
\* tuple's or a struct's visit_seq returns once it has every field, and the
\* other visitors keep it and go on.
Ret(stk, vs, v) ==
    IF stk = <<>> THEN [stack |-> stk, vals |-> <<v>> \o vs]
    ELSE LET f == Head(stk)
         IN  CASE f.op = "some" -> Ret(Tail(stk), vs, SomeV(v))
               [] f.op = "variant" -> Ret(Tail(stk), vs, EnumV(f.name, f.kind, v))
               [] f.op = "next_element" /\ f.vis # "seq" /\ f.got + 1 = Len(f.tys) ->
                    LET items == Reverse(SubSeq(vs, 1, f.got)) \o <<v>>
                        rest == SubSeq(vs, f.got + 1, Len(vs))
                    IN  Ret(Tail(stk), rest,
                            IF f.vis = "tuple" THEN TupleV(items) ELSE StructV(items))
               [] f.op = "next_element" ->
                    [stack |-> <<[f EXCEPT !.got = @ + 1]>> \o Tail(stk),
                     vals |-> <<v>> \o vs]
               [] OTHER -> [stack |-> stk, vals |-> <<v>> \o vs]

\* An Ok(v) of a Deserializer method, with the Deserializer left as d, the
\* callers left as stk and the values below v as vs.
DeliverOn(d, stk, vs, v) ==
    LET r == Ret(stk, vs, v)
    IN  /\ de' = d
        /\ stack' = r.stack
        /\ vals' = r.vals
        /\ UNCHANGED <<result, pc, serVars, given>>

Deliver(d, stk, v) ==
    DeliverOn(d, stk, vals, v)

\* An Err(e) is passed up by every caller; deserialize_seq, _tuple and _map
\* reset their flag on the way (they hold the visitor's result, Ok or Err).
\* An error that leaves the values decoded so far with the caller.
Fail_partial(d, e) ==
    /\ de' = d
    /\ stack' = <<>>
    /\ vals' = vals
    /\ result' = [status |-> "err", err |-> e]
    /\ pc' = "done"
    /\ UNCHANGED <<serVars, given>>

Fail(d, e) ==
    /\ de' = [d EXCEPT
                !.in_seq = IF \E i \in 1..Len(stack) : stack[i].op = "end_seq"
                           THEN FALSE ELSE @,
                !.in_map = IF \E i \in 1..Len(stack) : stack[i].op = "end_map"
                           THEN FALSE ELSE @]
    /\ stack' = <<>>
    /\ vals' = <<>>
    /\ result' = [status |-> "err", err |-> e]
    /\ pc' = "done"
    /\ UNCHANGED <<serVars, given>>

\* A panic (todo!, unimplemented!, an overflow check, a bad slice) unwinds.
Panic(d) ==
    /\ de' = d
    /\ stack' = <<>>
    /\ vals' = <<>>
    /\ result' = [status |-> "panic", err |-> ""]
    /\ pc' = "done"
    /\ UNCHANGED <<serVars, given>>

\* T::deserialize(&mut deserializer) is next, for a T of kind k.
Calls(k) ==
    /\ pc = "decode"
    /\ stack # <<>>
    /\ Head(stack).op = "de"
    /\ Head(stack).ty.k = k

\* A visitor on top of the stack is about to call op.
Visits(op) ==
    /\ pc = "decode"
    /\ stack # <<>>
    /\ Head(stack).op = op

peek_is(input, ch) ==
    input # <<>> /\ Head(input) = ch

(***************************************************************************)
(* The Deserializer's methods.                                             *)
(***************************************************************************)
deserialize_bool ==
    /\ Calls("bool")
    /\ IF StartsWith(de.input, W_true)
       THEN Deliver([de EXCEPT !.input = shift_input_forward(@, Len(W_true))],
                    Tail(stack), BoolV(TRUE))
       ELSE IF StartsWith(de.input, W_false)
       THEN Deliver([de EXCEPT !.input = shift_input_forward(@, Len(W_false))],
                    Tail(stack), BoolV(FALSE))
       ELSE Fail(de, "ExpectedBoolean")
    /\ UNCHANGED overflow_checks

\* deserialize_u8 .. deserialize_u64
deserialize_unsigned ==
    /\ Calls("uint")
    /\ \E oc \in {"on", "off"} :
         /\ overflow_checks \in {"unknown", oc}
         /\ LET r == parse_unsigned(Head(stack).ty.w, de.input, oc = "on")
                d == [de EXCEPT !.input = r.input]
            IN  /\ overflow_checks' = IF r.overflowed THEN oc ELSE overflow_checks
                /\ CASE r.st = "ok" -> Deliver(d, Tail(stack), UIntV(r.n))
                     [] r.st = "err" -> Fail(d, r.err)
                     [] r.st = "panic" -> Panic(d)

\* deserialize_i8 .. deserialize_i64: parse_signed is todo!()
deserialize_signed ==
    /\ Calls("sint")
    /\ Panic(de)
    /\ UNCHANGED overflow_checks

deserialize_char ==
    /\ Calls("char")
    /\ LET r == parse_string(de)
           d == [de EXCEPT !.input = r.input]
       IN  IF ByteLen(r.s) = 1
           THEN Deliver(d, Tail(stack), CharV(Head(r.s)))
           ELSE Fail(d, "ExpectedChar")
    /\ UNCHANGED overflow_checks

\* deserialize_str, deserialize_string
deserialize_str ==
    /\ Calls("str")
    /\ LET r == parse_string(de)
       IN  Deliver([de EXCEPT !.input = r.input], Tail(stack), StrV(r.s))
    /\ UNCHANGED overflow_checks

\* deserialize_bytes, deserialize_byte_buf
deserialize_bytes ==
    /\ Calls("bytes")
    /\ Fail(de, "BytesUnsupported")
    /\ UNCHANGED overflow_checks

\* The match of deserialize_option that answers visit_none.
IsNone(d) ==
    \/ d.input = <<>>
    \/ Head(d.input) = Colon /\ ~d.in_seq /\ ~d.in_map
    \/ Head(d.input) \in {Colon, Comma} /\ d.in_seq /\ ~d.in_map
    \/ Head(d.input) \in {Colon, Comma, Equals} /\ d.in_map

deserialize_option ==
    /\ Calls("opt")
    /\ IF IsNone(de)
       THEN Deliver(de, Tail(stack), NoneV)
       ELSE /\ stack' = <<[op |-> "de", ty |-> Head(stack).ty.of], [op |-> "some"]>>
                        \o Tail(stack)
            /\ UNCHANGED <<de, vals, result, pc, serVars, given>>
    /\ UNCHANGED overflow_checks

deserialize_seq ==
    /\ Calls("seq")
    /\ de' = [de EXCEPT !.in_seq = TRUE]
    /\ stack' = <<[op |-> "next_element", vis |-> "seq", tys |-> <<Head(stack).ty.of>>,
                   first |-> TRUE, delim |-> Comma, got |-> 0],
                  [op |-> "end_seq"]>> \o Tail(stack)
    /\ UNCHANGED <<vals, result, pc, serVars, given, overflow_checks>>

\* deserialize_tuple, deserialize_tuple_struct
deserialize_tuple ==
    /\ Calls("tuple")
    /\ de' = [de EXCEPT !.in_seq = TRUE]
    /\ stack' = <<[op |-> "next_element", vis |-> "tuple", tys |-> Head(stack).ty.tys,
                   first |-> TRUE, delim |-> Comma, got |-> 0],
                  [op |-> "end_seq"]>> \o Tail(stack)
    /\ UNCHANGED <<vals, result, pc, serVars, given, overflow_checks>>

deserialize_map ==
    /\ Calls("map")
    /\ de' = [de EXCEPT !.in_map = TRUE]
    /\ stack' = <<[op |-> "next_key", kty |-> Head(stack).ty.kty,
                   vty |-> Head(stack).ty.vty, first |-> TRUE, got |-> 0],
                  [op |-> "end_map"]>> \o Tail(stack)
    /\ UNCHANGED <<vals, result, pc, serVars, given, overflow_checks>>

deserialize_struct ==
    /\ Calls("struct")
    /\ stack' = <<[op |-> "next_element", vis |-> "struct", tys |-> Head(stack).ty.tys,
                   first |-> TRUE, delim |-> Colon, got |-> 0]>> \o Tail(stack)
    /\ UNCHANGED <<de, vals, result, pc, serVars, given, overflow_checks>>

\* The tail of deserialize_seq, deserialize_tuple: self.in_seq = false; v
end_seq ==
    /\ Visits("end_seq")
    /\ LET r == Ret(Tail(stack), Tail(vals), Head(vals))
       IN  /\ de' = [de EXCEPT !.in_seq = FALSE]
           /\ stack' = r.stack
           /\ vals' = r.vals
    /\ UNCHANGED <<result, pc, serVars, given, overflow_checks>>

\* The tail of deserialize_map: self.in_map = false; v
end_map ==
    /\ Visits("end_map")
    /\ LET r == Ret(Tail(stack), Tail(vals), Head(vals))
       IN  /\ de' = [de EXCEPT !.in_map = FALSE]
           /\ stack' = r.stack
           /\ vals' = r.vals
    /\ UNCHANGED <<result, pc, serVars, given, overflow_checks>>

(***************************************************************************)
(* SeqAccess, MapAccess, EnumAccess and VariantAccess.                     *)
(***************************************************************************)
\* next_char: the input left after its first character.
after_next_char(input) ==
    shift_input_forward(input, len_utf8(Head(input)))

\* SeqAccess::next_element_seed, called by the visit_seq of Vec (until it
\* answers None), of a tuple and of a derived struct (once per field; None
\* is their invalid_length error).
next_element_seed ==
    /\ Visits("next_element")
    /\ LET f == Head(stack)
           d == IF f.first THEN de ELSE [de EXCEPT !.input = after_next_char(@)]
       IN  IF de.input = <<>> \/ (f.delim # Colon /\ peek_is(de.input, Colon))
           THEN IF f.vis = "seq"
                THEN DeliverOn(de, Tail(stack), SubSeq(vals, f.got + 1, Len(vals)),
                               SeqV(Reverse(SubSeq(vals, 1, f.got))))
                ELSE Fail(de, "Message")
           ELSE IF ~f.first /\ Head(de.input) # f.delim
           THEN Fail(d, "ExpectedArrayComma")
           ELSE /\ de' = d
                /\ stack' = <<[op |-> "de",
                               ty |-> IF f.vis = "seq" THEN f.tys[1]
                                      ELSE f.tys[f.got + 1]],
                              [f EXCEPT !.first = FALSE]>> \o Tail(stack)
                /\ UNCHANGED <<vals, result, pc, serVars, given>>
    /\ UNCHANGED overflow_checks

\* MapAccess::next_key_seed, called by HashMap's visit_map until it answers
\* None.
next_key_seed ==
    /\ Visits("next_key")
    /\ LET f == Head(stack)
           d == IF f.first THEN de ELSE [de EXCEPT !.input = after_next_char(@)]
           len == get_next_nonescaped_char(d.input, Equals)
           comma_idx == get_next_nonescaped_char(d.input, Comma)
       IN  IF de.input = <<>> \/ peek_is(de.input, Colon)
           THEN DeliverOn(de, Tail(stack), SubSeq(vals, 2 * f.got + 1, Len(vals)),
                          MapV(MapFromEntries(Reverse(SubSeq(vals, 1, 2 * f.got)))))
           ELSE IF ~f.first /\ Head(de.input) # Comma
           THEN Fail(d, "ExpectedMapComma")
           ELSE IF ~len.is_some
           THEN Fail(d, "ExpectedMapEquals")
           ELSE IF comma_idx.is_some /\ comma_idx.idx < len.idx
           THEN Fail(d, "ExpectedMapEquals")
           ELSE /\ de' = d
                /\ stack' = <<[op |-> "de", ty |-> f.kty],
                              [f EXCEPT !.op = "next_value", !.first = FALSE]>>
                            \o Tail(stack)
                /\ UNCHANGED <<vals, result, pc, serVars, given>>
    /\ UNCHANGED overflow_checks

\* MapAccess::next_value_seed, called by visit_map after each key.
next_value_seed ==
    /\ Visits("next_value")
    /\ LET f == Head(stack)
           d == [de EXCEPT !.input = after_next_char(@)]
           comma_idx == get_next_nonescaped_char(d.input, Comma)
           len == IF comma_idx.is_some THEN comma_idx.idx ELSE ByteLen(d.input)
           equals_idx == get_next_nonescaped_char(d.input, Equals)
       IN  IF de.input = <<>>
           THEN Fail(de, "Eof")
           ELSE IF Head(de.input) # Equals
           THEN Fail(d, "ExpectedMapEquals")
           ELSE IF equals_idx.is_some /\ equals_idx.idx < len
           THEN Fail(d, "ExpectedMapComma")
           ELSE /\ de' = d
                /\ stack' = <<[op |-> "de", ty |-> f.vty],
                              [f EXCEPT !.op = "next_key", !.got = @ + 1]>>
                            \o Tail(stack)
                /\ UNCHANGED <<vals, result, pc, serVars, given>>
    /\ UNCHANGED overflow_checks

\* deserialize_enum: the derived visit_enum calls Enum::variant_seed (the tag
\* is read by deserialize_identifier; a tag that names no variant is serde's
\* unknown_variant error), then the VariantAccess method of the variant's
\* kind: unit_variant, newtype_variant_seed, tuple_variant or struct_variant.
deserialize_enum ==
    /\ Calls("enum")
    /\ LET variants == Head(stack).ty.variants
           r == parse_string(de)
           found == {i \in 1..Len(variants) : variants[i].name = r.s}
           v == variants[CHOOSE i \in found : TRUE]
           d == [de EXCEPT !.input = IF peek_is(r.input, Colon)
                                     THEN shift_input_forward(r.input, 1)
                                     ELSE r.input]
       IN  IF found = {}
           THEN Fail([de EXCEPT !.input = r.input], "Message")
           ELSE IF v.kind = "unit"
           THEN Deliver(d, Tail(stack), EnumV(v.name, v.kind, UnitV))
           ELSE /\ de' = d
                /\ stack' = <<[op |-> "de", ty |-> v.ty],
                              [op |-> "variant", name |-> v.name, kind |-> v.kind]>> \o Tail(stack)
                /\ UNCHANGED <<vals, result, pc, serVars, given>>
    /\ UNCHANGED overflow_checks

\* record_from_str without the test of the rest of the input: Ok(t) whatever
\* is left.
record_from_str_unchecked ==
    /\ pc = "decode"
    /\ stack = <<>>
    /\ result' = [status |-> "ok", err |-> ""]
    /\ pc' = "done"
    /\ UNCHANGED <<de, stack, vals, serVars, given, overflow_checks>>

\* record_from_str, after T::deserialize returned Ok(t)
record_from_str ==
    /\ pc = "decode"
    /\ stack = <<>>
    /\ IF de.input = <<>>
       THEN /\ result' = [status |-> "ok", err |-> ""]
            /\ vals' = vals
       ELSE /\ result' = [status |-> "err", err |-> "TrailingCharacters"]
            /\ vals' = <<>>
    /\ pc' = "done"
    /\ UNCHANGED <<de, stack, serVars, given, overflow_checks>>

(***************************************************************************)
(* record_from_str on any text, for each schema.                           *)
(***************************************************************************)
\* The characters texts are made of.
Alphabet == {"a", "1", Colon, Comma, Equals, Backslash, EAcute}

Schemas ==
    {T_str, T_char, T_bool, T_uint(8), T_uint(16), T_sint(8), T_bytes,
     T_opt(T_str), T_seq(T_str), T_seq(T_opt(T_str)), T_seq(T_uint(8)),
     T_tuple(<<T_str, T_str>>), T_map(T_str, T_str), T_map(T_str, T_opt(T_str)),
     Test, Pair, T_seq(Pair), T_map(T_str, Pair), T_map(T_str, T_seq(T_str)), E, Tagged,
     T_seq(T_seq(T_str)), T_tuple(<<T_seq(T_str), T_str>>)}

\* The identifiers a text for schema t may spell out.
Words(t) ==
    CASE t.k = "bool" -> {W_true, W_false}
      [] t = E -> {W_Unit, W_Newtype, W_Tuple, W_Struct, W_Opt}
      [] t = Tagged -> {W_Unit, W_Opt}
      [] OTHER -> {}

RECURSIVE Flatten(_)
Flatten(ss) ==
    IF ss = <<>> THEN <<>> ELSE Head(ss) \o Flatten(Tail(ss))

SeqsUpTo(S, n) ==
    UNION {[1..m -> S] : m \in 0..n}

\* Every text of at most MaxLen symbols, a symbol being a character or one
\* of the schema's identifiers.
Texts(t) ==
    {Flatten(ss) : ss \in SeqsUpTo({<<c>> : c \in Alphabet} \cup Words(t), MaxLen)}

\* The longer texts of the tests of de.rs (test_unsigned, test_trailing_chars,
\* test_option, test_map, test_struct, test_enum) and of the format's
\* description, for the schema they are decoded as.
Examples(t) ==
    CASE t \in {T_uint(8), T_uint(16)} ->
           {<<"1", "1", "5", "3", "4">>, <<"2", "5", "6">>}
      [] t \in {T_opt(T_str), T_seq(T_opt(T_str)), T_seq(T_str)} ->
           {<<"a", ":", ":", "b">>, <<"a", ",", ",", "b">>}
      [] t = T_map(T_str, T_str) ->
           {<<"a", "=", "b", ",", "c", "=", "d">>,
            <<"a", "=", "b", Backslash, ",", "x", ",", "c", "=", "d">>,
            <<"a", "=", "b", Backslash, ",", "x", ",", "c", "=", "d", Backslash, "=", "e">>,
            <<"a", "=", "b", ",", "c", "x", ",", "y", "=", "d">>,
            <<"a", "=", "b", "=", "x", ",", "c", "=", "d">>}
      [] t = T_map(T_str, T_opt(T_str)) ->
           {<<"a", "=", ",", "c", "=", "d">>, <<"a", "=", "b", ",", "c", "=">>}
      [] t = Test ->
           {<<"1", ":", "a", ",", "b">>, <<"1", ":", "a", ",", "b", ",", "c">>}
      [] t = E -> {W_Tuple \o <<":", "1", ",", "2">>}
      [] OTHER -> {}

Idle == [output |-> <<>>, in_seq |-> FALSE, in_map |-> FALSE]

Init ==
    /\ schema \in Schemas
    /\ text \in Texts(schema) \cup Examples(schema)
    /\ value = UnitV
    /\ de = from_str(text)
    /\ stack = <<[op |-> "de", ty |-> schema]>>
    /\ vals = <<>>
    /\ result = Running
    /\ ser = Idle
    /\ ser_stack = <<>>
    /\ ser_result = Running
    /\ overflow_checks = "unknown"
    /\ pc = "decode"

DecodeValue ==
    \/ deserialize_bool
    \/ deserialize_unsigned
    \/ deserialize_signed
    \/ deserialize_char
    \/ deserialize_str
    \/ deserialize_option
    \/ deserialize_seq
    \/ deserialize_tuple
    \/ deserialize_map
    \/ deserialize_struct
    \/ deserialize_enum
    \/ next_element_seed
    \/ next_key_seed
    \/ next_value_seed
    \/ end_seq
    \/ end_map
    \/ record_from_str

Decode ==
    \/ DecodeValue
    \/ deserialize_bytes

Next == Decode

Spec == Init /\ [][Next]_vars

(***************************************************************************)
(* The Serializer's methods (ser.rs).  ser_stack holds what is still to    *)
(* run of the encode call, innermost first: the pending value.serialize    *)
(* calls and the open UDSVSeq / UDSVTuple / UDSVMap / UDSVStuct, each with *)
(* its counter n and the items its owner has yet to hand over.             *)
(***************************************************************************)
RECURSIVE to_string(_)
\* u64::to_string
to_string(n) ==
    IF n < 10 THEN <<Digits[n + 1]>>
    ELSE to_string(n \div 10) \o <<Digits[(n % 10) + 1]>>

\* value.serialize(&mut serializer) is next, for a value of kind k.
Serializes(k) ==
    /\ pc = "encode"
    /\ ser_stack # <<>>
    /\ Head(ser_stack).op = "ser"
    /\ Head(ser_stack).v.k = k

\* The owner of the composite on top is about to call op.
Writes(op) ==
    /\ pc = "encode"
    /\ ser_stack # <<>>
    /\ Head(ser_stack).op = op

\* self.output += s, and the call returns Ok(()).
Emit(s) ==
    /\ ser' = [ser EXCEPT !.output = @ \o s]
    /\ ser_stack' = Tail(ser_stack)

decVars == <<de, stack, vals, result, overflow_checks>>

serialize_bool ==
    /\ Serializes("bool")
    /\ Emit(IF Head(ser_stack).v.b THEN W_true ELSE W_false)
    /\ UNCHANGED <<ser_result, pc, decVars, given>>

\* serialize_i8 .. serialize_i64
serialize_i64 ==
    /\ Serializes("sint")
    /\ Emit(IF Head(ser_stack).v.n < 0
            THEN <<"-">> \o to_string(0 - Head(ser_stack).v.n)
            ELSE to_string(Head(ser_stack).v.n))
    /\ UNCHANGED <<ser_result, pc, decVars, given>>

\* serialize_u8 .. serialize_u64
serialize_u64 ==
    /\ Serializes("uint")
    /\ Emit(to_string(Head(ser_stack).v.n))
    /\ UNCHANGED <<ser_result, pc, decVars, given>>

serialize_char ==
    /\ Serializes("char")
    /\ Emit(escape_str(ser, <<Head(ser_stack).v.c>>))
    /\ UNCHANGED <<ser_result, pc, decVars, given>>

serialize_str ==
    /\ Serializes("str")
    /\ Emit(escape_str(ser, Head(ser_stack).v.s))
    /\ UNCHANGED <<ser_result, pc, decVars, given>>

serialize_bytes ==
    /\ Serializes("bytes")
    /\ ser_result' = [status |-> "err", err |-> "BytesUnsupported"]
    /\ ser_stack' = <<>>
    /\ pc' = "done"
    /\ UNCHANGED <<ser, decVars, given>>

\* serialize_none, serialize_unit
serialize_none ==
    /\ Serializes("none")
    /\ Emit(<<>>)
    /\ UNCHANGED <<ser_result, pc, decVars, given>>

serialize_some ==
    /\ Serializes("some")
    /\ ser_stack' = <<[op |-> "ser", v |-> Head(ser_stack).v.v]>> \o Tail(ser_stack)
    /\ UNCHANGED <<ser, ser_result, pc, decVars, given>>

serialize_seq ==
    /\ Serializes("seq")
    /\ ser' = [ser EXCEPT !.in_seq = TRUE]
    /\ ser_stack' = <<[op |-> "elements", items |-> Head(ser_stack).v.items, n |-> 0]>>
                    \o Tail(ser_stack)
    /\ UNCHANGED <<ser_result, pc, decVars, given>>

\* serialize_tuple, serialize_tuple_struct
serialize_tuple ==
    /\ Serializes("tuple")
    /\ ser' = [ser EXCEPT !.in_seq = TRUE]
    /\ ser_stack' = <<[op |-> "elements", items |-> Head(ser_stack).v.items, n |-> 0]>>
                    \o Tail(ser_stack)
    /\ UNCHANGED <<ser_result, pc, decVars, given>>

\* The orders in which a HashMap with the keys ks may be iterated.
Orders(ks) ==
    {o \in [1..Cardinality(ks) -> ks] : \A i, j \in DOMAIN o : i # j => o[i] # o[j]}

serialize_map ==
    /\ Serializes("map")
    /\ \E o \in Orders(DOMAIN Head(ser_stack).v.m) :
         ser_stack' = <<[op |-> "entries",
                         items |-> [i \in DOMAIN o |->
                                      <<o[i], Head(ser_stack).v.m[o[i]]>>],
                         n |-> 0, at |-> "key"]>> \o Tail(ser_stack)
    /\ ser' = [ser EXCEPT !.in_map = TRUE]
    /\ UNCHANGED <<ser_result, pc, decVars, given>>

serialize_struct ==
    /\ Serializes("struct")
    /\ ser_stack' = <<[op |-> "fields", items |-> Head(ser_stack).v.items, n |-> 0]>>
                    \o Tail(ser_stack)
    /\ UNCHANGED <<ser, ser_result, pc, decVars, given>>

\* An enum value whose variant is of kind kind is next.
SerializesVariant(kind) ==
    /\ Serializes("enum")
    /\ Head(ser_stack).v.kind = kind

serialize_unit_variant ==
    /\ SerializesVariant("unit")
    /\ Emit(escape_str(ser, Head(ser_stack).v.variant))
    /\ UNCHANGED <<ser_result, pc, decVars, given>>

serialize_newtype_variant ==
    /\ SerializesVariant("newtype")
    /\ ser' = [ser EXCEPT
                 !.output = @ \o escape_str(ser, Head(ser_stack).v.variant) \o <<Colon>>]
    /\ ser_stack' = <<[op |-> "ser", v |-> Head(ser_stack).v.payload]>> \o Tail(ser_stack)
    /\ UNCHANGED <<ser_result, pc, decVars, given>>

serialize_tuple_variant ==
    /\ SerializesVariant("tuple")
    /\ ser' = [ser EXCEPT
                 !.output = @ \o escape_str(ser, Head(ser_stack).v.variant) \o <<Colon>>,
                 !.in_seq = TRUE]
    /\ ser_stack' = <<[op |-> "elements", items |-> Head(ser_stack).v.payload.items,
                       n |-> 0]>> \o Tail(ser_stack)
    /\ UNCHANGED <<ser_result, pc, decVars, given>>

serialize_struct_variant ==
    /\ SerializesVariant("struct")
    /\ ser' = [ser EXCEPT
                 !.output = @ \o escape_str(ser, Head(ser_stack).v.variant) \o <<Colon>>]
    /\ ser_stack' = <<[op |-> "fields", items |-> Head(ser_stack).v.payload.items,
                       n |-> 0]>> \o Tail(ser_stack)
    /\ UNCHANGED <<ser_result, pc, decVars, given>>

\* The separator an element, entry or field gets when n were written before.
\* The separator written before every element, the first one too.
Separator_always(n, sep) ==
    <<sep>>

Separator(n, sep) ==
    IF n > 0 THEN <<sep>> ELSE <<>>

\* serialize_element of SerializeSeq and SerializeTuple, serialize_field of
\* SerializeTupleStruct and SerializeTupleVariant
serialize_element ==
    /\ Writes("elements")
    /\ Head(ser_stack).items # <<>>
    /\ LET f == Head(ser_stack)
       IN  /\ ser' = [ser EXCEPT !.output = @ \o Separator(f.n, Comma)]
           /\ ser_stack' = <<[op |-> "ser", v |-> Head(f.items)],
                             [f EXCEPT !.items = Tail(@), !.n = @ + 1]>>
                           \o Tail(ser_stack)
    /\ UNCHANGED <<ser_result, pc, decVars, given>>

\* end of SerializeSeq, SerializeTuple, SerializeTupleStruct, SerializeTupleVariant
SerializeSeq_end ==
    /\ Writes("elements")
    /\ Head(ser_stack).items = <<>>
    /\ ser' = [ser EXCEPT !.in_seq = FALSE]
    /\ ser_stack' = Tail(ser_stack)
    /\ UNCHANGED <<ser_result, pc, decVars, given>>

serialize_key ==
    /\ Writes("entries")
    /\ Head(ser_stack).items # <<>>
    /\ Head(ser_stack).at = "key"
    /\ LET f == Head(ser_stack)
       IN  /\ ser' = [ser EXCEPT !.output = @ \o Separator(f.n, Comma)]
           /\ ser_stack' = <<[op |-> "ser", v |-> Head(f.items)[1]],
                             [f EXCEPT !.at = "value", !.n = @ + 1]>>
                           \o Tail(ser_stack)
    /\ UNCHANGED <<ser_result, pc, decVars, given>>

serialize_value ==
    /\ Writes("entries")
    /\ Head(ser_stack).at = "value"
    /\ LET f == Head(ser_stack)
       IN  /\ ser' = [ser EXCEPT !.output = @ \o <<Equals>>]
           /\ ser_stack' = <<[op |-> "ser", v |-> Head(f.items)[2]],
                             [f EXCEPT !.at = "key", !.items = Tail(@)]>>
                           \o Tail(ser_stack)
    /\ UNCHANGED <<ser_result, pc, decVars, given>>

SerializeMap_end ==
    /\ Writes("entries")
    /\ Head(ser_stack).items = <<>>
    /\ ser' = [ser EXCEPT !.in_map = FALSE]
    /\ ser_stack' = Tail(ser_stack)
    /\ UNCHANGED <<ser_result, pc, decVars, given>>

\* serialize_field of SerializeStruct and SerializeStructVariant
serialize_field ==
    /\ Writes("fields")
    /\ Head(ser_stack).items # <<>>
    /\ LET f == Head(ser_stack)
       IN  /\ ser' = [ser EXCEPT !.output = @ \o Separator(f.n, Colon)]
           /\ ser_stack' = <<[op |-> "ser", v |-> Head(f.items)],
                             [f EXCEPT !.items = Tail(@), !.n = @ + 1]>>
                           \o Tail(ser_stack)
    /\ UNCHANGED <<ser_result, pc, decVars, given>>

\* end of SerializeStruct and SerializeStructVariant
SerializeStruct_end ==
    /\ Writes("fields")
    /\ Head(ser_stack).items = <<>>
    /\ ser_stack' = Tail(ser_stack)
    /\ UNCHANGED <<ser, ser_result, pc, decVars, given>>

\* record_to_string returns Ok(serializer.output), and the caller hands the
\* text to record_from_str, asking for the type of the value.
record_to_string ==
    /\ pc = "encode"
    /\ ser_stack = <<>>
    /\ ser_result' = [status |-> "ok", err |-> ""]
    /\ text' = ser.output
    /\ de' = from_str(ser.output)
    /\ stack' = <<[op |-> "de", ty |-> schema]>>
    /\ pc' = "decode"
    /\ UNCHANGED <<ser, ser_stack, vals, result, overflow_checks, value, schema>>

Encode ==
    \/ serialize_bool
    \/ serialize_i64
    \/ serialize_u64
    \/ serialize_char
    \/ serialize_str
    \/ serialize_bytes
    \/ serialize_none
    \/ serialize_some
    \/ serialize_seq
    \/ serialize_tuple
    \/ serialize_map
    \/ serialize_struct
    \/ serialize_unit_variant
    \/ serialize_newtype_variant
    \/ serialize_tuple_variant
    \/ serialize_struct_variant
    \/ serialize_element
    \/ SerializeSeq_end
    \/ serialize_key
    \/ serialize_value
    \/ SerializeMap_end
    \/ serialize_field
    \/ SerializeStruct_end
    \/ record_to_string

(***************************************************************************)
(* record_from_str(record_to_string(v)) for the values v of each schema.   *)
(***************************************************************************)
\* Most elements, entries of a sequence or map of a value.
MaxItems == 2

\* Longest string of a value that is built from plain characters only.
MaxPlain == 1

\* Strings with no reserved character, the empty string among them.
PlainStrs == SeqsUpTo({"a", EAcute}, MaxPlain)

\* Strings over the reserved characters and two letters.
RichStrs ==
    SeqsUpTo({"a", "n", Colon, Comma, Equals, Backslash, Newline, Tab, CarriageReturn},
             MaxStr)

Nums == {0, 7, 12}

RECURSIVE Product(_)
\* The sequences whose i-th item is drawn from the i-th set.
Product(sets) ==
    IF sets = <<>> THEN {<<>>}
    ELSE {<<x>> \o r : x \in Head(sets), r \in Product(Tail(sets))}

RECURSIVE ValuesOf(_, _)
\* The values of type t whose strings are drawn from strs.
ValuesOf(t, strs) ==
    CASE t.k = "str" -> {StrV(x) : x \in strs}
      [] t.k = "char" -> {CharV(c) : c \in {"a", EAcute}}
      [] t.k = "bool" -> {BoolV(b) : b \in BOOLEAN}
      [] t.k = "uint" -> {UIntV(n) : n \in Nums}
      [] t.k = "sint" -> {SIntV(n) : n \in {0 - 1, 5}}
      [] t.k = "bytes" -> {BytesV}
      [] t.k = "unit" -> {UnitV}
      [] t.k = "opt" -> {NoneV} \cup {SomeV(v) : v \in ValuesOf(t.of, strs)}
      [] t.k = "seq" -> {SeqV(x) : x \in SeqsUpTo(ValuesOf(t.of, strs), MaxItems)}
      [] t.k = "tuple" ->
           {TupleV(x) : x \in Product([i \in DOMAIN t.tys |-> ValuesOf(t.tys[i], strs)])}
      [] t.k = "struct" ->
           {StructV(x) : x \in Product([i \in DOMAIN t.tys |-> ValuesOf(t.tys[i], strs)])}
      [] t.k = "map" ->
           {MapV(m) : m \in UNION {[ks -> ValuesOf(t.vty, strs)] :
                                     ks \in {x \in SUBSET ValuesOf(t.kty, strs) :
                                               Cardinality(x) <= MaxItems}}}
      [] t.k = "enum" ->
           UNION {{EnumV(t.variants[i].name, t.variants[i].kind, p) :
                     p \in ValuesOf(t.variants[i].ty, strs)} : i \in DOMAIN t.variants}

\* A string of reserved characters and letters: alone, as the one element of
\* a sequence, as the value of the one entry of a map, and as the one element
\* of a sequence that is the value of the one entry of a map.
RichValues(t) ==
    CASE t = T_str -> {StrV(x) : x \in RichStrs}
      [] t = T_seq(T_str) -> {SeqV(<<StrV(x)>>) : x \in RichStrs}
      [] t = T_map(T_str, T_str) ->
           {MapV([key \in {StrV(<<"a">>)} |-> StrV(x)]) : x \in RichStrs}
      [] t = T_map(T_str, T_seq(T_str)) ->
           {MapV([key \in {StrV(<<"a">>)} |-> SeqV(<<StrV(x)>>)]) : x \in RichStrs}
      [] OTHER -> {}

\* struct Test of test_struct of ser.rs and the value the test encodes.
Record ==
    T_struct(<<T_uint(32), T_seq(T_str), T_tuple(<<T_str, T_str>>), T_str,
               T_opt(T_str), T_opt(T_str)>>)

RecordValue ==
    StructV(<<UIntV(1),
              SeqV(<<StrV(<<"a">>), StrV(<<"b">>)>>),
              TupleV(<<StrV(<<"c">>), StrV(<<"d">>)>>),
              StrV(<<"h", "e", "l", "l", "o">>),
              NoneV,
              SomeV(StrV(<<"w", "o", "r", "l", "d">>))>>)

\* The values the round trip starts from, for each schema.
Values(t) ==
    IF t = Record THEN {RecordValue}
    ELSE ValuesOf(t, PlainStrs) \cup RichValues(t)

InitRT ==
    /\ schema \in Schemas \cup {Record}
    /\ value \in Values(schema)
    /\ text = <<>>
    /\ de = from_str(<<>>)
    /\ stack = <<>>
    /\ vals = <<>>
    /\ result = Running
    /\ ser = Idle
    /\ ser_stack = <<[op |-> "ser", v |-> value]>>
    /\ ser_result = Running
    /\ overflow_checks = "unknown"
    /\ pc = "encode"

NextRT ==
    \/ Encode
    \/ DecodeValue

SpecRT == InitRT /\ [][NextRT]_vars

(***************************************************************************)
(* Properties.                                                             *)
(***************************************************************************)
\* The characters the format reserves.
Reserved == {Backslash, Colon, Comma, Equals, Newline, CarriageReturn, Tab}

RECURSIVE Supported(_)
\* A type both engines implement: no signed integer, no bytes.
Supported(t) ==
    CASE t.k \in {"sint", "bytes"} -> FALSE
      [] t.k \in {"opt", "seq"} -> Supported(t.of)
      [] t.k \in {"tuple", "struct"} -> \A i \in DOMAIN t.tys : Supported(t.tys[i])
      [] t.k = "map" -> Supported(t.kty) /\ Supported(t.vty)
      [] t.k = "enum" -> \A i \in DOMAIN t.variants : Supported(t.variants[i].ty)
      [] OTHER -> TRUE

RECURSIVE Plain(_)
\* No string or char of the value holds a reserved character.
Plain(v) ==
    CASE v.k = "str" -> \A i \in DOMAIN v.s : v.s[i] \notin Reserved
      [] v.k = "char" -> v.c \notin Reserved
      [] v.k = "some" -> Plain(v.v)
      [] v.k \in {"seq", "tuple", "struct"} -> \A i \in DOMAIN v.items : Plain(v.items[i])
      [] v.k = "map" -> \A key \in DOMAIN v.m : Plain(key) /\ Plain(v.m[key])
      [] v.k = "enum" -> Plain(v.payload)
      [] OTHER -> TRUE

\* C1: a value of a supported type whose strings hold no reserved character
\* comes back from record_from_str(record_to_string(v)) as Ok(v); empty
\* strings, None and empty composites are among the values.
C1_RoundTrip ==
    (pc = "done" /\ Supported(schema) /\ Plain(value))
        => (result.status = "ok" /\ vals = <<value>>)

\* The strings over the characters C2 names: the delimiters, the backslash,
\* the newline and letters.
OverEscapeAlphabet(x) ==
    \A i \in DOMAIN x : x[i] \in {"a", "n", Colon, Comma, Equals, Backslash, Newline}

\* C2: a string over ':' ',' '=' backslash, newline and letters that is
\* encoded as the value of a map entry is the value the decoded map holds.
C2_MapValueEscapeRoundTrip ==
    (/\ pc = "done"
     /\ schema = T_map(T_str, T_str)
     /\ value \in RichValues(schema)
     /\ \A key \in DOMAIN value.m : OverEscapeAlphabet(value.m[key].s))
        => (result.status = "ok" /\ vals = <<value>>)

\* C3: record_from_str returns Ok or Err for every text and schema; it never
\* panics.
C3_NoPanic ==
    result.status # "panic"

\* C4: record_from_str returns Ok(v) only when the schema has been decoded and
\* the cursor is empty; when the schema has been decoded and input remains,
\* it returns Err(TrailingCharacters) and no value.
C4_TrailingCharacters ==
    [][/\ (result'.status = "ok" /\ result.status # "ok")
            => (pc = "decode" /\ stack = <<>> /\ de.input = <<>> /\ Len(vals') = 1)
       /\ (pc = "decode" /\ stack = <<>> /\ de.input # <<>>)
            => (/\ result' = [status |-> "err", err |-> "TrailingCharacters"]
                /\ vals' = <<>>)]_vars

\* 'a::b' as Vec<Option<String>>: the sequence ends at the first ':', which
\* is left over.
C4_Witness ==
    /\ pc = "done"
    /\ schema = T_seq(T_opt(T_str))
    /\ text = <<"a", ":", ":", "b">>
    /\ de.input = <<":", ":", "b">>
    /\ result = [status |-> "err", err |-> "TrailingCharacters"]
    /\ vals = <<>>

\* The positions of t that hold an unescaped ch: ch not preceded by a
\* backslash, the first position included.
UnescapedAt(t, ch) ==
    {i \in 1..Len(t) : t[i] = ch /\ (i = 1 \/ t[i - 1] # Backslash)}

RECURSIVE Split(_, _)
\* The tokens of t between its unescaped ch.
Split(t, ch) ==
    IF UnescapedAt(t, ch) = {} THEN <<t>>
    ELSE LET p == CHOOSE i \in UnescapedAt(t, ch) : \A j \in UnescapedAt(t, ch) : i <= j
         IN  <<SubSeq(t, 1, p - 1)>> \o Split(SubSeq(t, p + 1, Len(t)), ch)

\* The entries of a map text, and the key and the value of an entry with one
\* unescaped '='.
EntriesOf(t) == Split(t, Comma)
KeyOf(e) == Split(e, Equals)[1]
ValueOf(e) == Split(e, Equals)[2]
WellFormedEntry(e) == Cardinality(UnescapedAt(e, Equals)) = 1

\* The map a well-formed text of string entries stands for.
MapOf(t) ==
    MapV(MapFromEntries(Flatten(
        [i \in DOMAIN EntriesOf(t) |->
            <<StrV(Unescape(KeyOf(EntriesOf(t)[i]))),
              StrV(Unescape(ValueOf(EntriesOf(t)[i])))>>])))

\* C5: a map text with an entry that has no unescaped '=' before its ',' or
\* a second unescaped '=' before it fails with ExpectedMapEquals or
\* ExpectedMapComma and gives no value; a text k1=v1,...,kn=vn without
\* unescaped delimiters in keys and values decodes to those entries.
C5_MapWellFormedness ==
    (/\ pc = "done"
     /\ schema = T_map(T_str, T_str)
     /\ text # <<>>
     /\ UnescapedAt(text, Colon) = {})
        => IF \A i \in DOMAIN EntriesOf(text) : WellFormedEntry(EntriesOf(text)[i])
           THEN result.status = "ok" /\ vals = <<MapOf(text)>>
           ELSE /\ result.status = "err"
                /\ result.err \in {"ExpectedMapEquals", "ExpectedMapComma"}
                /\ vals = <<>>

\* The condition C6 gives for an absent optional: the cursor is empty or
\* starts with a delimiter that is active in the context.
OptionNone(d) ==
    \/ d.input = <<>>
    \/ Head(d.input) = Colon
    \/ Head(d.input) = Comma /\ (d.in_seq \/ d.in_map)
    \/ Head(d.input) = Equals /\ d.in_map

\* The optional string a token stands for.
OptOf(tok) == IF tok = <<>> THEN NoneV ELSE SomeV(StrV(Unescape(tok)))

\* The map a well-formed text of entries with optional values stands for.
MapOptOf(t) ==
    MapV(MapFromEntries(Flatten(
        [i \in DOMAIN EntriesOf(t) |->
            <<StrV(Unescape(KeyOf(EntriesOf(t)[i]))), OptOf(ValueOf(EntriesOf(t)[i]))>>])))

\* The sequence of optional strings a text of comma separated tokens
\* stands for.
SeqOptOf(t) ==
    SeqV([i \in DOMAIN Split(t, Comma) |-> OptOf(Split(t, Comma)[i])])

\* The step that C6 describes at a position where an optional is requested.
C6_OptionStep ==
    Calls("opt")
        => IF OptionNone(de)
           THEN Deliver(de, Tail(stack), NoneV)
           ELSE stack' = <<[op |-> "de", ty |-> Head(stack).ty.of], [op |-> "some"]>>
                         \o Tail(stack)

\* Comma separated tokens as Vec<Option<String>>: an empty token is None.
C6_SequenceSlots ==
    (/\ pc = "done"
     /\ schema = T_seq(T_opt(T_str))
     /\ text # <<>>
     /\ UnescapedAt(text, Colon) = {})
        => (result.status = "ok" /\ vals = <<SeqOptOf(text)>>)

\* Entries with a key as HashMap<String, Option<String>>: an empty value is
\* None.
C6_MapSlots ==
    (/\ pc = "done"
     /\ schema = T_map(T_str, T_opt(T_str))
     /\ text # <<>>
     /\ UnescapedAt(text, Colon) = {}
     /\ \A i \in DOMAIN EntriesOf(text) :
           /\ WellFormedEntry(EntriesOf(text)[i])
           /\ KeyOf(EntriesOf(text)[i]) # <<>>)
        => (result.status = "ok" /\ vals = <<MapOptOf(text)>>)

\* C6: wherever an optional is requested the result is None exactly when
\* the cursor is empty or starts with an active delimiter, and Some of the
\* underlying type otherwise; an empty slot between two delimiters, in a
\* sequence ('a,,b') or as a map value ('a=,c=d'), decodes to None and the
\* decode does not fail.
C6_OptionalDecoding ==
    /\ [][C6_OptionStep]_vars
    /\ [](C6_SequenceSlots)
    /\ [](C6_MapSlots)

\* The sequence of strings a text of comma separated tokens stands for.
SeqOf(t) ==
    SeqV([i \in DOMAIN Split(t, Comma) |-> StrV(Unescape(Split(t, Comma)[i]))])

\* Tokens joined by unescaped commas as Vec<String>: one element for each
\* token, in order, unescaped.
C7_Elements ==
    (/\ pc = "done"
     /\ schema = T_seq(T_str)
     /\ text # <<>>
     /\ UnescapedAt(text, Colon) = {})
        => (result.status = "ok" /\ vals = <<SeqOf(text)>>)

\* The step of a sequence at its next element: it reads no element when the
\* cursor is empty or starts with ':', and fails with ExpectedArrayComma when
\* an element that is not the first does not start with ','.
C7_ElementStep ==
    (Visits("next_element") /\ Head(stack).vis = "seq")
        => /\ (de.input = <<>> \/ Head(de.input) = Colon)
                => ~(/\ pc' = "decode"
                     /\ Len(stack') = Len(stack) + 1
                     /\ Head(stack').op = "de")
           /\ (/\ ~Head(stack).first
               /\ de.input # <<>>
               /\ Head(de.input) \notin {Colon, Comma})
                => result' = [status |-> "err", err |-> "ExpectedArrayComma"]

\* C7: t1,t2,...,tn, each ti a possibly empty token without unescaped ','
\* or ':', decodes as a sequence of strings to n elements in order, element i
\* the unescape of ti; reading stops at the end of the cursor or at ':'; an
\* element after the first that is not preceded by ',' fails with
\* ExpectedArrayComma.
C7_SequenceDecoding ==
    /\ [](C7_Elements)
    /\ [][C7_ElementStep]_vars

\* The types decoded from one token.
Scalars == {"str", "char", "bool", "uint", "sint"}

\* A scalar field of a struct is about to be decoded.
ScalarFieldPending ==
    /\ pc = "decode"
    /\ Len(stack) >= 2
    /\ stack[1].op = "de"
    /\ stack[1].ty.k \in Scalars
    /\ stack[2].op = "next_element"
    /\ stack[2].vis = "struct"

\* The step of a struct at its next field: the fields come in declaration
\* order, and a field after the first is read after one ':' is consumed.
C8_FieldStep ==
    (/\ Visits("next_element")
     /\ Head(stack).vis = "struct"
     /\ pc' = "decode"
     /\ Len(stack') = Len(stack) + 1)
        => /\ Head(stack') = [op |-> "de", ty |-> Head(stack).tys[Head(stack).got + 1]]
           /\ IF Head(stack).first THEN de' = de
              ELSE /\ Head(de.input) = Colon
                   /\ de' = [de EXCEPT !.input = Tail(@)]

\* While a scalar field of a struct is decoded no sequence or map context is
\* active, wherever the struct is.
C8_FieldContext ==
    ScalarFieldPending => (~de.in_seq /\ ~de.in_map)

\* Two string fields: each is the token up to the next unescaped ':' or the
\* end of the input, whatever ',' and '=' it holds.
C8_FieldTokens ==
    (/\ pc = "done"
     /\ schema = Pair
     /\ Len(Split(text, Colon)) = 2)
        => /\ result.status = "ok"
           /\ vals = <<StructV(<<StrV(Unescape(Split(text, Colon)[1])),
                                 StrV(Unescape(Split(text, Colon)[2]))>>)>>

\* '1:a,b,c' as the struct of an unsigned integer and a sequence of strings.
C8_SequenceField ==
    (/\ pc = "done"
     /\ schema = Test
     /\ text = <<"1", ":", "a", ",", "b", ",", "c">>)
        => /\ result.status = "ok"
           /\ vals = <<StructV(<<UIntV(1),
                                 SeqV(<<StrV(<<"a">>), StrV(<<"b">>), StrV(<<"c">>)>>)>>)>>

\* C8: the fields of a struct are decoded in declaration order, each after
\* the first preceded by one consumed ':'; while a scalar field of the struct
\* is decoded in_seq and in_map are false, so the field runs to the next
\* unescaped ':' or the end of the input; a sequence field takes the comma
\* separated elements up to the next ':'; and this holds wherever the struct
\* is, as an element of a sequence or a value of a map too.
C8_StructDecoding ==
    /\ [][C8_FieldStep]_vars
    /\ [](C8_FieldTokens)
    /\ [](C8_SequenceField)
    /\ [](C8_FieldContext)

\* The tag C9 reads at the cursor, the token up to the next unescaped ':' or
\* the end of the input, and what follows it.
TagOf(input) == Split(input, Colon)[1]
AfterTag(input) == SubSeq(input, Len(TagOf(input)) + 1, Len(input))

\* The step C9 describes where an enum is requested: the tag is read, a ':'
\* right after it is consumed, and the payload is requested by the kind of the
\* variant the tag names.
C9_TagStep ==
    Calls("enum")
        => LET variants == Head(stack).ty.variants
               rest == AfterTag(de.input)
               after == IF rest # <<>> /\ Head(rest) = Colon THEN Tail(rest) ELSE rest
               found == {i \in 1..Len(variants) :
                            variants[i].name = Unescape(TagOf(de.input))}
               v == variants[CHOOSE i \in found : TRUE]
           IN  IF found = {}
               THEN result'.status = "err" /\ de'.input = rest
               ELSE IF v.kind = "unit"
               THEN Deliver([de EXCEPT !.input = after], Tail(stack),
                            EnumV(v.name, v.kind, UnitV))
               ELSE /\ de' = [de EXCEPT !.input = after]
                    /\ Head(stack') = [op |-> "de", ty |-> v.ty]

\* The value C9 gives for each of its example texts of the enum E.
C9_Expected(t) ==
    CASE t = W_Opt \o <<":", "1">> -> <<EnumV(W_Opt, "newtype", SomeV(UIntV(1)))>>
      [] t = W_Opt \o <<":">> -> <<EnumV(W_Opt, "newtype", NoneV)>>
      [] t = W_Unit -> <<EnumV(W_Unit, "unit", UnitV)>>
      [] t = W_Newtype \o <<":", "1">> -> <<EnumV(W_Newtype, "newtype", UIntV(1))>>
      [] t = W_Tuple \o <<":", "1", ",", "2">> ->
           <<EnumV(W_Tuple, "tuple", TupleV(<<UIntV(1), UIntV(2)>>))>>
      [] t = W_Struct \o <<":", "1">> -> <<EnumV(W_Struct, "struct", StructV(<<UIntV(1)>>))>>
      [] OTHER -> <<>>

C9_Examples ==
    (pc = "done" /\ schema = E /\ C9_Expected(text) # <<>>)
        => (result.status = "ok" /\ vals = C9_Expected(text))

\* C9: the variant tag is the token from the cursor up to the next unescaped
\* ':' or the end of the input; a ':' right after the tag is consumed and the
\* payload is decoded by the kind of the variant; 'Opt:1', 'Opt:', 'Unit',
\* 'Newtype:1', 'Tuple:1,2' and 'Struct:1' decode to their variants.
C9_EnumDecoding ==
    /\ [](C9_Examples)
    /\ [][C9_TagStep]_vars

\* What one character of a string becomes in the output, by C10.
EscapeOf(c, in_seq, in_map) ==
    CASE c = Backslash -> <<Backslash, Backslash>>
      [] c = Colon -> <<Backslash, Colon>>
      [] c = Newline -> <<Backslash, "n">>
      [] c = Comma /\ (in_seq \/ in_map) -> <<Backslash, Comma>>
      [] c = Equals /\ in_map -> <<Backslash, Equals>>
      [] OTHER -> <<c>>

\* C10: the string a serialize_str appends to the output is the string with
\* the backslash doubled, then ':' and the newline escaped, then ',' escaped
\* in a sequence or a map only and '=' in a map only, in this order, so that
\* no backslash that an escape inserts is escaped again; the tab, the carriage
\* return and every other character are appended as they are.
C10_EncodeEscaping ==
    [][Serializes("str")
         => ser'.output = ser.output \o
                Flatten([i \in DOMAIN Head(ser_stack).v.s |->
                            EscapeOf(Head(ser_stack).v.s[i], ser.in_seq, ser.in_map)])]_vars

\* The value ",=\" (comma, equals, backslash) of a map entry has been encoded,
\* each of the three characters escaped.
C10_Witness ==
    /\ pc = "decode"
    /\ schema = T_map(T_str, T_str)
    /\ value = MapV([key \in {StrV(<<"a">>)} |-> StrV(<<Comma, Equals, Backslash>>)])
    /\ text = <<"a", Equals, Backslash, Comma, Backslash, Equals, Backslash, Backslash>>
    /\ stack # <<>>

\* What each write of an encoder scope appends before the element, entry or
\* field it writes: one separator unless it is the first of the scope, '='
\* between a key and its value, and nothing for None and unit.
C11_WriteStep ==
    /\ (Writes("elements") /\ Head(ser_stack).items # <<>>)
         => ser'.output = ser.output \o (IF Head(ser_stack).n + 1 > 1 THEN <<Comma>> ELSE <<>>)
    /\ (Writes("entries") /\ Head(ser_stack).items # <<>> /\ Head(ser_stack).at = "key")
         => ser'.output = ser.output \o (IF Head(ser_stack).n + 1 > 1 THEN <<Comma>> ELSE <<>>)
    /\ (Writes("entries") /\ Head(ser_stack).at = "value")
         => ser'.output = ser.output \o <<Equals>>
    /\ (Writes("fields") /\ Head(ser_stack).items # <<>>)
         => ser'.output = ser.output \o (IF Head(ser_stack).n + 1 > 1 THEN <<Colon>> ELSE <<>>)
    /\ (Serializes("none") \/ Serializes("unit"))
         => ser'.output = ser.output

\* The number of separators of the encoding of a value without reserved
\* characters: n - 1 for a scope of n >= 1 elements, n '=' for n entries.
C11_SeparatorCount ==
    (ser_result.status = "ok" /\ Plain(value))
        => /\ (schema = T_seq(T_str) /\ value.items # <<>>)
                => Cardinality(UnescapedAt(text, Comma)) = Len(value.items) - 1
           /\ schema \in {T_tuple(<<T_str, T_str>>)}
                => Cardinality(UnescapedAt(text, Comma)) = 1
           /\ schema = Pair
                => Cardinality(UnescapedAt(text, Colon)) = 1
           /\ (schema = T_map(T_str, T_str) /\ DOMAIN value.m # {})
                => /\ Cardinality(UnescapedAt(text, Comma)) = Cardinality(DOMAIN value.m) - 1
                   /\ Cardinality(UnescapedAt(text, Equals)) = Cardinality(DOMAIN value.m)
           /\ schema \in {T_seq(T_str), T_map(T_str, T_str)}
                => UnescapedAt(text, Colon) = {}
           /\ schema = Record
                => text = <<"1", ":", "a", ",", "b", ":", "c", ",", "d", ":",
                            "h", "e", "l", "l", "o", ":", ":", "w", "o", "r", "l", "d">>

\* C11: in every encoder scope the k-th element, entry or field is preceded
\* by one separator (',' or, for struct fields, ':') exactly when k > 1; a map
\* entry is key, '=', value; None and unit append nothing; so n elements give
\* n - 1 separators and no separator leads or trails the scope.
C11_EncodeSeparators ==
    /\ [][C11_WriteStep]_vars
    /\ [](C11_SeparatorCount)

\* struct Test of test_struct is encoded as '1:a,b:c,d:hello::world'.
C11_Witness ==
    /\ ser_result.status = "ok"
    /\ value = RecordValue
    /\ text = <<"1", ":", "a", ",", "b", ":", "c", ",", "d", ":",
                "h", "e", "l", "l", "o", ":", ":", "w", "o", "r", "l", "d">>

(***************************************************************************)
(* Both engines: record_from_str on any text, and record_to_string on any  *)
(* value followed by record_from_str on its output.                        *)
(***************************************************************************)
InitAll == Init \/ InitRT

NextAll ==
    \/ Encode
    \/ Decode

SpecAll == InitAll /\ [][NextAll]_vars

\* The errors of err.rs that report a malformed text.
SyntaxErrors ==
    {"Eof", "Syntax", "IntegerOverflow", "ExpectedBoolean", "ExpectedInteger",
     "ExpectedChar", "ExpectedString", "ExpectedEmpty", "ExpectedArray",
     "ExpectedArrayComma", "ExpectedArrayEnd", "ExpectedMap", "ExpectedMapComma",
     "ExpectedMapEquals", "ExpectedMapEnd", "ExpectedEnum", "TrailingCharacters"}

\* After an error nothing moves; the step that fails ends the call with that
\* error and without a value; a request for bytes fails with BytesUnsupported.
C12_ErrorStep ==
    /\ (result.status = "err" \/ ser_result.status = "err") => vars' = vars
    /\ (result'.status = "err" /\ result.status # "err")
         => (vals' = <<>> /\ stack' = <<>> /\ pc' = "done")
    /\ (ser_result'.status = "err" /\ ser_result.status # "err")
         => (/\ ser'.output = ser.output
             /\ ser_stack' = <<>>
             /\ text' = <<>>
             /\ result' = Running
             /\ pc' = "done")
    /\ Calls("bytes") => result' = [status |-> "err", err |-> "BytesUnsupported"]
    /\ Serializes("bytes") => ser_result' = [status |-> "err", err |-> "BytesUnsupported"]

\* A call that failed holds no value, and BytesUnsupported is the error of
\* the bytes schema and of no other, never one of the syntax errors.
C12_ErrorState ==
    /\ result.status = "err" => (vals = <<>> /\ pc = "done")
    /\ ser_result.status = "err" => (text = <<>> /\ vals = <<>> /\ pc = "done")
    /\ "BytesUnsupported" \notin SyntaxErrors
    /\ (result.err = "BytesUnsupported" \/ ser_result.err = "BytesUnsupported")
         <=> (pc = "done" /\ schema = T_bytes)

\* C12: an error is fatal: once a step of a decode or an encode returns an
\* error no input is consumed and no output appended any more, nothing is
\* retried, and record_from_str or record_to_string returns that error and no
\* value; bytes fail with BytesUnsupported, which is not a syntax error.
C12_ErrorsAreFatal ==
    /\ [][C12_ErrorStep]_vars
    /\ [](C12_ErrorState)

\* '1,a' as Vec<u8>: the second element fails after the first was decoded,
\* and the call ends with ExpectedInteger and no value.
C12_Witness ==
    /\ schema = T_seq(T_uint(8))
    /\ text = <<"1", ",", "a">>
    /\ de.input = <<>>
    /\ result = [status |-> "err", err |-> "ExpectedInteger"]
    /\ vals = <<>>

\* The index (in bytes, from 0) of the first unescaped ch of t, if any.
FirstUnescaped(t, ch) ==
    IF UnescapedAt(t, ch) = {} THEN NoIdx
    ELSE SomeIdx(ByteOff(t, CHOOSE i \in UnescapedAt(t, ch) :
                                \A j \in UnescapedAt(t, ch) : i <= j))

\* C13: for every remaining input and delimiter ch, get_next_nonescaped_char
\* returns the smallest index i with text[i] = ch and (i = 0 or text[i-1] not
\* a backslash), and None exactly when there is none; a delimiter at index 0
\* is found at 0.
C13_DelimiterSearch ==
    \A ch \in {Colon, Comma, Equals} :
        get_next_nonescaped_char(de.input, ch) = FirstUnescaped(de.input, ch)

\* The delimiters that are active in the context of d.
Active(d) ==
    {Colon} \cup (IF d.in_seq \/ d.in_map THEN {Comma} ELSE {})
            \cup (IF d.in_map THEN {Equals} ELSE {})

\* The smallest first unescaped index of the active delimiters, if any.
Boundary(d) ==
    LET found == {FirstUnescaped(d.input, ch).idx :
                    ch \in {c \in Active(d) : FirstUnescaped(d.input, c).is_some}}
    IN  IF found = {} THEN NoIdx
        ELSE SomeIdx(CHOOSE i \in found : \A j \in found : i <= j)

\* C14: get_next_delimiter_idx returns the minimum over the active
\* delimiters (':' always, ',' in a sequence or a map, '=' in a map) of their
\* first unescaped index, and None exactly when no active delimiter has an
\* unescaped occurrence; an inactive delimiter never shortens the token.
C14_FieldBoundary ==
    get_next_delimiter_idx(de) = Boundary(de)

\* The replacement passes in the order C15 gives: the structural escapes,
\* the escaped newline, the escaped non-printables, and the two backslashes
\* last.
UnescapeBackslashLast(s) ==
    LET s1 == Replace(s, <<Backslash, Colon>>, <<Colon>>)
        s2 == Replace(s1, <<Backslash, Comma>>, <<Comma>>)
        s3 == Replace(s2, <<Backslash, Equals>>, <<Equals>>)
        s4 == Replace(s3, <<Backslash, Newline>>, <<>>)
        s5 == Replace(s4, <<Backslash, "n">>, <<Newline>>)
        s6 == Replace(s5, <<Backslash, "r">>, <<CarriageReturn>>)
        s7 == Replace(s6, <<Backslash, "t">>, <<Tab>>)
    IN  Replace(s7, <<Backslash, Backslash>>, <<Backslash>>)

\* C15: the string parse_string returns for a raw token is the token after
\* the replacement passes \: \, \= then backslash-newline to nothing, then
\* \n \r \t, and last of all two backslashes to one.
C15_UnescapeOrder ==
    [][Calls("str")
         => Deliver([de EXCEPT !.input = parse_string(de).input], Tail(stack),
                    StrV(UnescapeBackslashLast(SliceTo(de.input, TokenLen(de)))))]_vars

RECURSIVE LeadingDigits(_)
\* The longest run of decimal digits t starts with.
LeadingDigits(t) ==
    IF t = <<>> \/ ~IsDigit(Head(t)) THEN <<>>
    ELSE <<Head(t)>> \o LeadingDigits(Tail(t))

RECURSIVE DecimalValue(_)
\* The number a run of decimal digits stands for.
DecimalValue(ds) ==
    IF ds = <<>> THEN 0
    ELSE DecimalValue(SubSeq(ds, 1, Len(ds) - 1)) * 10 + DigitVal(ds[Len(ds)])

\* C16: parsing an unsigned integer of w bits fails with ExpectedInteger when
\* the first character is not a decimal digit; otherwise the leading digits
\* are consumed, and the parse fails with IntegerOverflow when their value
\* exceeds 2^w - 1 (it neither wraps nor panics) and returns the value when
\* it fits.
C16_UnsignedParsing ==
    [][(Calls("uint") /\ de.input # <<>>)
         => LET run == LeadingDigits(de.input)
                rest == SubSeq(de.input, Len(run) + 1, Len(de.input))
            IN  IF run = <<>>
                THEN result' = [status |-> "err", err |-> "ExpectedInteger"]
                ELSE IF DecimalValue(run) > 2 ^ Head(stack).ty.w - 1
                THEN result' = [status |-> "err", err |-> "IntegerOverflow"]
                ELSE Deliver([de EXCEPT !.input = rest], Tail(stack),
                             UIntV(DecimalValue(run)))]_vars

\* A scope of the given kind is open in a stack of frames.
Open(stk, op) == \E i \in 1..Len(stk) : stk[i].op = op

\* At every element processed while a sequence or tuple scope is open in_seq
\* is true, and in_map while a map scope is open, in both engines.
C17_FlagsInScope ==
    /\ (pc = "decode" /\ stack # <<>> /\ Head(stack).op = "de")
         => /\ Open(stack, "end_seq") => de.in_seq
            /\ Open(stack, "end_map") => de.in_map
    /\ (pc = "encode" /\ ser_stack # <<>> /\ Head(ser_stack).op = "ser")
         => /\ Open(ser_stack, "elements") => ser.in_seq
            /\ Open(ser_stack, "entries") => ser.in_map

\* When a scope ends the flags are what they were before it began: the flag
\* of the scope is set exactly when an enclosing scope of its kind is open,
\* and the other flag is as it was.
C17_FlagsAtEnd ==
    /\ Visits("end_seq")
         => (de'.in_seq = Open(Tail(stack), "end_seq") /\ de'.in_map = de.in_map)
    /\ Visits("end_map")
         => (de'.in_map = Open(Tail(stack), "end_map") /\ de'.in_seq = de.in_seq)
    /\ (Writes("elements") /\ Head(ser_stack).items = <<>>)
         => (/\ ser'.in_seq = Open(Tail(ser_stack), "elements")
             /\ ser'.in_map = ser.in_map)
    /\ (Writes("entries") /\ Head(ser_stack).items = <<>>)
         => (/\ ser'.in_map = Open(Tail(ser_stack), "entries")
             /\ ser'.in_seq = ser.in_seq)

\* C17: in both engines, while a sequence or tuple scope is open in_seq is
\* true at every element of the scope, also after a sequence or tuple nested
\* in it has ended (and in_map for a map scope); when a scope ends in_seq and
\* in_map have the values they had before the scope began.
C17_ContextScoping ==
    /\ [](C17_FlagsInScope)
    /\ [][C17_FlagsAtEnd]_vars

\* a is what is left of b after some prefix of b is removed.
IsSuffix(a, b) ==
    /\ Len(a) <= Len(b)
    /\ a = SubSeq(b, Len(b) - Len(a) + 1, Len(b))

\* C18: along a decode the input left after each step is a suffix of the
\* input left before it, whether the step succeeds or fails; the extraction of
\* a string removes the token only and leaves the cursor at the delimiter that
\* ends it, or at the end of the input.
C18_CursorMonotonicity ==
    [][/\ IsSuffix(de'.input, de.input)
       /\ (Calls("str") \/ Calls("char"))
            => (/\ de'.input = <<>> \/ Head(de'.input) \in Active(de)
                /\ Calls("str")
                     => Deliver(de', Tail(stack),
                                StrV(Unescape(SubSeq(de.input, 1,
                                                     Len(de.input) - Len(de'.input))))))]_vars

\* 'a,a' as Vec<String>: the first element is extracted and the cursor is at
\* the ',' that ends it.
C18_Witness ==
    /\ pc = "decode"
    /\ schema = T_seq(T_str)
    /\ text = <<"a", ",", "a">>
    /\ de.input = <<",", "a">>
    /\ vals = <<StrV(<<"a">>)>>

\* The decoder is about to decode an enum whose tag names a unit variant.
UnitTagAt(d, stk) ==
    /\ stk # <<>>
    /\ Head(stk).op = "de"
    /\ Head(stk).ty.k = "enum"
    /\ \E i \in 1..Len(Head(stk).ty.variants) :
          /\ Head(stk).ty.variants[i].name = parse_string(d).s
          /\ Head(stk).ty.variants[i].kind = "unit"

\* The decode of a unit variant takes the tag and nothing else.
C19_TagOnly ==
    (pc = "decode" /\ UnitTagAt(de, stack)) => de'.input = parse_string(de).input

\* A struct { e: E, n: u32 } whose e is the unit variant decodes from its
\* encoding to the struct that was encoded.
C19_StructDecoded ==
    (/\ pc = "done"
     /\ schema = Tagged
     /\ ser_result.status = "ok"
     /\ value.items[1].kind = "unit")
        => (result.status = "ok" /\ vals = <<value>>)

\* C19: the decode of a unit enum variant consumes its tag only, so the ':'
\* before the next field of an enclosing struct is left for the struct; a
\* struct whose non-last field is a unit variant, encoded as 'Unit:1', decodes
\* to the original struct.
C19_UnitVariantInStruct ==
    [][C19_TagOnly]_vars /\ [](C19_StructDecoded)

=============================================================================
